---- MODULE Spec2Model ----
(***************************************************************************)
(* A state-machine model of class Connector (app/src/main/connector.ts):  *)
(* the serial-port connection manager with its handshake, steady-state    *)
(* handler, timers, send gate and teardown.  The transport (SerialPort),  *)
(* the hardware module's hooks and the host are the environment: their    *)
(* events and results are drawn from small sets.                          *)
(***************************************************************************)
EXTENDS Naturals, Sequences, FiniteSets

\* Number of transports the host may create with open() in one run.
MaxPorts == 1

\* Number of transports the scanner may create when it retries open().
MaxRetryPorts == 2

Ports == 1..(IF MaxPorts > MaxRetryPorts THEN MaxPorts ELSE MaxRetryPorts)

\* Payloads handed to send(); "empty" is a falsy payload (undefined, '', null).
Payloads == {"empty", "requestInitialData", "resetProperty", "requestLocalData",
             "getProperty", "host"}

\* What checkInitialData may return: undefined, true, or another defined value.
Results == {"undefined", "true", "false"}

VARIABLES
    options,      \* this.options: control, firmwarecheck, delimiter
    router,       \* this.router is set
    serialPort,   \* this.serialPort: a port id, 0 when undefined
    connected,    \* this.connected
    received,     \* this.received
    isSending,    \* this.isSending
    executeFlash, \* this.executeFlash
    flashFirmware,           \* this.flashFirmware: handle (id) or 0
    slaveTimer,              \* this.slaveTimer: handle (id) or 0
    connectionLostTimer,     \* this.connectionLostTimer is set
    requestLocalDataInterval,\* this.requestLocalDataInterval is set
    advertiseInterval,       \* this.advertiseInterval is set
    ports,        \* the transports created so far, by id
    promise,      \* the future returned by initialize(), per port
    settledBy,    \* observer: which event settled that future first
    armedFlash,   \* firmware-deadline timeouts still pending (by handle)
    armedSlave,   \* handshake-poll intervals still running (by handle)
    writes,       \* writes started and not yet drained
    window,       \* observer of the loss windows between monitor ticks
    last          \* observer: what the last step did

vars == <<options, router, serialPort, connected, received, isSending,
          executeFlash, flashFirmware, slaveTimer, connectionLostTimer,
          requestLocalDataInterval, advertiseInterval, ports, promise,
          settledBy, armedFlash, armedSlave, writes, window, last>>

\* The whole state as one record, so that a handler can call another.
St ==
    [options |-> options, router |-> router, serialPort |-> serialPort,
     connected |-> connected, received |-> received, isSending |-> isSending,
     executeFlash |-> executeFlash, flashFirmware |-> flashFirmware,
     slaveTimer |-> slaveTimer, connectionLostTimer |-> connectionLostTimer,
     requestLocalDataInterval |-> requestLocalDataInterval,
     advertiseInterval |-> advertiseInterval, ports |-> ports,
     promise |-> promise, settledBy |-> settledBy, armedFlash |-> armedFlash, armedSlave |-> armedSlave,
     writes |-> writes, window |-> window, last |-> last]

Set(s) ==
    /\ options' = s.options
    /\ router' = s.router
    /\ serialPort' = s.serialPort
    /\ connected' = s.connected
    /\ received' = s.received
    /\ isSending' = s.isSending
    /\ executeFlash' = s.executeFlash
    /\ flashFirmware' = s.flashFirmware
    /\ slaveTimer' = s.slaveTimer
    /\ connectionLostTimer' = s.connectionLostTimer
    /\ requestLocalDataInterval' = s.requestLocalDataInterval
    /\ advertiseInterval' = s.advertiseInterval
    /\ ports' = s.ports
    /\ promise' = s.promise
    /\ settledBy' = s.settledBy
    /\ armedFlash' = s.armedFlash
    /\ armedSlave' = s.armedSlave
    /\ writes' = s.writes
    /\ window' = s.window
    /\ last' = s.last

\* A transport that open() has not created yet.
NoPort ==
    [status |-> "none", parser |-> FALSE, pipes |-> 0, data |-> {},
     other |-> {}, opened |-> "none"]

\* The observer's record of a step that has done nothing yet.
Step(op, p) ==
    [op |-> op, port |-> p, result |-> "na", events |-> <<>>, sends |-> 0,
     wrote |-> 0, checks |-> 0, steady |-> 0, calls |-> {},
     settle |-> "none", before |-> "none", quiet |-> FALSE,
     valid |-> "na"]

Begin(op, p) == [St EXCEPT !.last = Step(op, p)]

NoWindow ==
    [armed |-> FALSE, frames |-> FALSE, silent |-> 0, lost |-> 0,
     announced |-> 0]

Init ==
    /\ options \in [control : {"master", "slave"}, firmwarecheck : BOOLEAN,
                    delimiter : BOOLEAN]
    /\ router = FALSE
    /\ serialPort = 0
    /\ connected = FALSE
    /\ received = FALSE
    /\ isSending = FALSE
    /\ executeFlash = FALSE
    /\ flashFirmware = 0
    /\ slaveTimer = 0
    /\ connectionLostTimer = FALSE
    /\ requestLocalDataInterval = FALSE
    /\ advertiseInterval = FALSE
    /\ ports = [p \in Ports |-> NoPort]
    /\ promise = [p \in Ports |-> "none"]
    /\ settledBy = [p \in Ports |-> "none"]
    /\ armedFlash = {}
    /\ armedSlave = {}
    /\ writes = <<>>
    /\ window = NoWindow
    /\ last = Step("init", 0)

----------------------------------------------------------------------------
\* serialPort.isOpen of the transport this.serialPort refers to.
isOpen(s) == s.serialPort # 0 /\ s.ports[s.serialPort].status = "open"

\* emitter.removeAllListeners('data') on the serial port itself: with a
\* parser the port's data listeners are the pipes into it.
removeDataListeners(s, p) ==
    IF p = 0 THEN s
    ELSE IF s.ports[p].parser
         THEN [s EXCEPT !.ports[p].pipes = 0]
         ELSE [s EXCEPT !.ports[p].data = {}]

\* removeAllListeners('data') on the read stream (the parser, else the port).
removeReadListeners(s, p) ==
    IF p = 0 THEN s ELSE [s EXCEPT !.ports[p].data = {}]

\* The connection over transport p is torn down: not connected, no
\* steady-state timer, no listener on the transport or its parser, transport
\* not open.
tornDown(s, p) ==
    /\ ~s.connected
    /\ ~s.connectionLostTimer
    /\ ~s.requestLocalDataInterval
    /\ ~s.advertiseInterval
    /\ IF p = 0 THEN TRUE
       ELSE /\ s.ports[p].data = {}
            /\ s.ports[p].other = {}
            /\ s.ports[p].pipes = 0
            /\ s.ports[p].status # "open"

\* this._sendState(state): the module's eventController and router.sendState.
\* The observer notes whether the connection is torn down at the emission.
sendState(s, state) ==
    [s EXCEPT !.last.events = Append(@, state),
              !.last.quiet = tornDown(s, s.last.port)]

\* A hook of the hardware module or of the router is invoked.
call(s, hook) == [s EXCEPT !.last.calls = @ \cup {hook}]

\* The send gate without the in-flight test.
sendUngated(s, data) ==
    LET t == [s EXCEPT !.last.sends = @ + 1] IN
    IF isOpen(s) /\ data # "empty"
    THEN [t EXCEPT !.isSending = TRUE,
                   !.writes = Append(@, [stage |-> "write"]),
                   !.last.wrote = @ + 1]
    ELSE t

\* send(data): writes only with the port open, a payload, and nothing in flight.
send(s, data) ==
    LET t == [s EXCEPT !.last.sends = @ + 1] IN
    IF isOpen(s) /\ data # "empty" /\ ~s.isSending
    THEN [t EXCEPT !.isSending = TRUE,
                   !.writes = Append(@, [stage |-> "write"]),
                   !.last.wrote = @ + 1]
    ELSE t

\* The callback of serialPort.write: drain, if a transport is still referenced.
writeCallback(s, i) ==
    IF s.serialPort # 0
    THEN [s EXCEPT !.writes[i].stage = "drain"]
    ELSE [s EXCEPT !.writes[i].stage = "nodrain"]

RemoveAt(q, i) == [j \in 1..(Len(q) - 1) |-> IF j < i THEN q[j] ELSE q[j + 1]]

\* A drain callback that leaves the in-flight flag set.
drainCallbackKeepsFlag(s, i) ==
    [s EXCEPT !.writes = RemoveAt(@, i)]

\* The callback of serialPort.drain: the gate opens again.
drainCallback(s, i) ==
    [s EXCEPT !.isSending = FALSE, !.writes = RemoveAt(@, i)]

\* clear(): stop the steady-state timers and the firmware deadline, detach
\* every listener of the referenced transport and of its parser.
clear(s) ==
    LET a == [s EXCEPT !.connected = FALSE,
                       !.connectionLostTimer = FALSE,
                       !.requestLocalDataInterval = FALSE,
                       !.advertiseInterval = FALSE,
                       !.window = NoWindow]
        b == IF a.serialPort # 0
             THEN [a EXCEPT !.ports[a.serialPort].pipes = 0,
                            !.ports[a.serialPort].data = {},
                            !.ports[a.serialPort].other = {}]
             ELSE a
    IN  IF b.flashFirmware # 0
        THEN [b EXCEPT !.armedFlash = @ \ {b.flashFirmware}, !.flashFirmware = 0]
        ELSE b

\* A close() that closes the referenced transport whatever it reports.
closeUnchecked(s) ==
    LET a == clear(s) IN
    IF a.serialPort # 0
    THEN [call(a, "serialPort.close") EXCEPT
             !.ports[a.serialPort].status = "closing"]
    ELSE a

\* close(): clear(), then close the transport if it reports itself open.
close(s) ==
    LET a == clear(s) IN
    IF isOpen(a)
    THEN [call(a, "serialPort.close") EXCEPT
             !.ports[a.serialPort].status = "closing"]
    ELSE a

\* The callback of serialPort.close: the reference is discarded.
closeCallback(s, p) ==
    [s EXCEPT !.ports[p].status = "closed", !.serialPort = 0]

\* resolve() / reject() of the future initialize() returned for port p: only
\* the first settlement counts.
resolve(s, p, by) ==
    [s EXCEPT !.promise[p] = IF @ = "pending" THEN "resolved" ELSE @,
              !.settledBy[p] = IF s.promise[p] = "pending" THEN by ELSE @,
              !.last.settle = "resolve", !.last.before = s.promise[p]]

reject(s, p, by) ==
    [s EXCEPT !.promise[p] = IF @ = "pending" THEN "rejected" ELSE @,
              !.settledBy[p] = IF s.promise[p] = "pending" THEN by ELSE @,
              !.last.settle = "reject", !.last.before = s.promise[p]]

\* this.flashFirmware && clearTimeout(this.flashFirmware)
clearFlashFirmware(s) == [s EXCEPT !.armedFlash = @ \ {s.flashFirmware}]

\* this.slaveTimer && clearTimeout(this.slaveTimer)
clearSlaveTimer(s) == [s EXCEPT !.armedSlave = @ \ {s.slaveTimer}]

\* Variants of the master listener: request says whether an undefined result
\* sends requestInitialData, detach whether a defined result removes the
\* data listeners.
masterDataVariant(s, p, result, request, detach) ==
    LET a == [s EXCEPT !.last.checks = @ + 1, !.last.result = result] IN
    IF result = "undefined"
    THEN IF request THEN send(a, "requestInitialData") ELSE a
    ELSE LET b == clearFlashFirmware(
                      IF detach
                      THEN removeReadListeners(removeDataListeners(a, p), p)
                      ELSE a)
         IN  IF result = "true"
             THEN resolve(call(b, "setSerialPort"), p, "data")
             ELSE reject(b, p, "data")

masterDataNoRequest(s, p, result) ==
    masterDataVariant(s, p, result, FALSE, TRUE)

masterDataKeepsListeners(s, p, result) ==
    masterDataVariant(s, p, result, TRUE, FALSE)

\* The data listener of runAsMaster, attached for port p.
masterData(s, p, result) ==
    LET a == [s EXCEPT !.last.checks = @ + 1, !.last.result = result] IN
    IF result = "undefined"
    THEN send(a, "requestInitialData")
    ELSE LET b == clearFlashFirmware(
                      removeReadListeners(removeDataListeners(a, p), p))
         IN  IF result = "true"
             THEN resolve(call(b, "setSerialPort"), p, "data")
             ELSE reject(b, p, "data")

\* The data listener of runAsSlave, attached for port p.  reset is what
\* resetProperty() returns, "absent" when the module has no such hook.
slaveData(s, p, result, reset) ==
    LET a == [s EXCEPT !.last.checks = @ + 1, !.last.result = result] IN
    IF result = "undefined"
    THEN a
    ELSE LET b == clearSlaveTimer(clearFlashFirmware(
                      removeReadListeners(
                          removeDataListeners(a, a.serialPort), p)))
         IN  IF result = "true"
             THEN LET c == call(b, "setSerialPort")
                      d == IF reset = "absent" THEN c
                           ELSE send(call(c, "resetProperty"), reset)
                  IN  resolve(d, p, "data")
             ELSE reject(b, p, "data")

\* The callback of the slaveTimer interval.
slaveTick(s) == send(s, "requestInitialData")

\* The callback of the flashFirmware timeout armed by the initialize() call
\* for port p.
flashTimeout(s, p) ==
    LET a == IF s.serialPort # 0
             THEN [removeReadListeners(s, s.serialPort)
                      EXCEPT !.executeFlash = TRUE]
             ELSE s
    IN  resolve(a, p, "deadline")

\* initialize(): arm the firmware deadline, then start the handshake of the
\* configured role, or resolve at once when the module cannot handshake.
initialize(s, handshake) ==
    LET p == s.serialPort
        a == [s EXCEPT !.promise[p] = "pending"]
        b == IF a.options.firmwarecheck
             THEN [a EXCEPT !.flashFirmware = p, !.armedFlash = @ \cup {p}]
             ELSE a
        c == [b EXCEPT !.ports[p].data = @ \cup {"handshake"}]
    IN  IF handshake
        THEN IF b.options.control = "master"
             THEN c
             ELSE [c EXCEPT !.slaveTimer = p, !.armedSlave = @ \cup {p}]
        ELSE resolve(b, p, "nohandshake")

Min(a, b) == IF a < b THEN a ELSE b

\* A steady-state listener that announces every accepted frame.
steadyDataAnnouncesAll(s0, valid, reply) ==
    LET s == [s0 EXCEPT !.last.steady = @ + 1,
                        !.last.valid = IF valid THEN "yes" ELSE "no"]
    IN
    IF ~valid THEN s
    ELSE LET a == sendState([s EXCEPT !.connected = TRUE,
                                      !.window.announced = Min(@ + 1, 2)],
                            "connected")
             b == [a EXCEPT !.received = TRUE,
                            !.window = IF @.armed
                                       THEN [@ EXCEPT !.frames = TRUE,
                                                      !.silent = 0, !.lost = 0]
                                       ELSE @]
             c == call(call(call(b, "handleLocalData"), "setHandlerData"),
                       "sendEncodedDataToServer")
         IN  IF c.options.control = "master" /\ reply # "empty"
             THEN send(c, reply)
             ELSE c

\* The steady-state data listener attached by connect().  valid is what
\* validateLocalData answers (TRUE when absent), reply what requestLocalData()
\* returns ("empty" when absent or falsy).  The observer counts in
\* window.announced the `connected` events since connect(), up to two.
steadyData(s0, valid, reply) ==
    LET s == [s0 EXCEPT !.last.steady = @ + 1,
                        !.last.valid = IF valid THEN "yes" ELSE "no"]
    IN
    IF ~valid THEN s
    ELSE LET a == IF ~s.connected
                  THEN sendState([s EXCEPT !.connected = TRUE,
                                           !.window.announced = Min(@ + 1, 2)],
                                 "connected")
                  ELSE s
             b == [a EXCEPT !.received = TRUE,
                            !.window = IF @.armed
                                       THEN [@ EXCEPT !.frames = TRUE,
                                                      !.silent = 0, !.lost = 0]
                                       ELSE @]
             c == call(call(call(b, "handleLocalData"), "setHandlerData"),
                       "sendEncodedDataToServer")
         IN  IF c.options.control = "master" /\ reply # "empty"
             THEN send(c, reply)
             ELSE c

\* The observer of loss windows at a monitor tick: a window is silent when
\* no frame was accepted in it; silent counts the consecutive silent windows
\* that ended since the state was Connected, lost the `lost` events in them.
observeTick(s, wasConnected, emitted) ==
    LET w == s.window
        n == IF emitted THEN 1 ELSE 0
    IN  [s EXCEPT !.window =
            IF w.frames
            THEN [w EXCEPT !.frames = FALSE, !.silent = 0, !.lost = 0]
            ELSE IF wasConnected \/ w.silent > 0
                 THEN [w EXCEPT !.silent = Min(@ + 1, 2),
                                !.lost = Min(@ + n, 2)]
                 ELSE w]

\* A monitor tick that does not clear the received flag for the next window.
lostTickNoReset(s) ==
    LET a == [s EXCEPT !.last.before =
                           IF s.connected THEN "connected" ELSE "idle"]
        emit == s.connected /\ ~s.received
        b == IF emit
             THEN sendState([a EXCEPT !.connected = FALSE], "lost")
             ELSE a
    IN  observeTick(b, s.connected, emit)

\* The callback of the connectionLostTimer interval.
lostTick(s) ==
    LET a == [s EXCEPT !.last.before =
                           IF s.connected THEN "connected" ELSE "idle"]
        emit == s.connected /\ ~s.received
        b == IF emit
             THEN sendState([a EXCEPT !.connected = FALSE], "lost")
             ELSE a
        c == IF s.connected THEN [b EXCEPT !.received = FALSE] ELSE b
    IN  observeTick(c, s.connected, emit)

\* The callback of the requestLocalDataInterval interval: two optional payloads.
pollTick(s, local, property) ==
    LET a == IF local # "empty" THEN send(s, local) ELSE s IN
    IF property # "empty" THEN send(a, property) ELSE a

\* connect() past its two precondition tests.  lostController and advertise
\* say whether the module has that hook and the options that interval.
connect(s, lostController, advertise) ==
    LET p == s.serialPort
        a == sendState(call([s EXCEPT !.connected = FALSE, !.received = TRUE],
                            "connect"), "connect")
        b == [call(a, "afterConnect") EXCEPT
                 !.ports[p].pipes = IF s.ports[p].parser THEN @ + 1 ELSE @,
                 !.ports[p].data = @ \cup {"steady"},
                 !.ports[p].other = @ \cup {"disconnect"}]
        c == IF lostController
             THEN call([b EXCEPT !.window.announced = 0], "lostController")
             ELSE [b EXCEPT !.connectionLostTimer = TRUE,
                            !.window = [NoWindow EXCEPT !.armed = TRUE]]
        d == IF c.options.control # "master"
             THEN [c EXCEPT !.requestLocalDataInterval = TRUE]
             ELSE c
    IN  IF advertise THEN [d EXCEPT !.advertiseInterval = TRUE] ELSE d

\* One 'data' emission of port p's read stream: the listeners attached when
\* the emission starts are called in the order they were attached.
emitData(s, p, result, valid, reply, reset) ==
    LET L == s.ports[p].data
        a == IF "handshake" \in L
             THEN IF s.options.control = "master"
                  THEN masterData(s, p, result)
                  ELSE slaveData(s, p, result, reset)
             ELSE s
    IN  IF "steady" \in L THEN steadyData(a, valid, reply) ELSE a

\* The transport delivers one frame's bytes on port p: straight to the port's
\* listeners, or through each pipe into the parser, which emits the frame.
portData(s, p, result, valid, reply, reset) ==
    LET n == IF s.ports[p].parser THEN s.ports[p].pipes ELSE 1
        a == IF n >= 1 THEN emitData(s, p, result, valid, reply, reset) ELSE s
    IN  IF n >= 2 THEN emitData(a, p, result, valid, reply, reset) ELSE a

\* The 'disconnect' listener attached by connect().
disconnectListener(s) == sendState(close(s), "disconnected")

----------------------------------------------------------------------------
\* The router registers itself once the scanner has initialized the port.
SetRouter ==
    /\ ~router
    /\ serialPort # 0
    /\ promise[serialPort] = "resolved"
    /\ Set([Begin("setRouter", 0) EXCEPT !.router = TRUE])

\* open(port): a new transport is created and referenced; it opens later.
Open(n) ==
    /\ IF serialPort = 0 THEN TRUE
       ELSE ports[serialPort].status \in {"closing", "closed"}
    /\ \E p \in 1..n :
        /\ ports[p].status = "none"
        /\ \A q \in Ports : q < p => ports[q].status # "none"
        /\ Set([Begin("open", p) EXCEPT
                  !.serialPort = p,
                  !.ports[p] = [status |-> "opening",
                                parser |-> options.delimiter,
                                pipes |-> IF options.delimiter THEN 1 ELSE 0,
                                data |-> {}, other |-> {"error", "open"},
                                opened |-> "pending"]])

\* The transport emits 'open': the listener removes itself and resolves.
OpenDone(p) ==
    /\ ports[p].status = "opening"
    /\ LET s == Begin("opened", p) IN
       Set([s EXCEPT !.ports[p].status = "open",
                     !.ports[p].other = IF "open" \in @ THEN @ \ {"open"} ELSE @,
                     !.ports[p].opened = IF "open" \in s.ports[p].other
                                         THEN "resolved" ELSE @])

\* The transport fails to open and emits 'error': open() rejects.
OpenFail(p) ==
    /\ ports[p].status = "opening"
    /\ "error" \in ports[p].other
    /\ Set([Begin("openFailed", p) EXCEPT !.ports[p].status = "closed",
                                          !.ports[p].opened = "rejected"])

\* The open transport emits 'error': the listener open() attached is open()'s
\* reject, which has no effect once open() has resolved.
PortError(p) ==
    /\ ports[p].status = "open"
    /\ "error" \in ports[p].other
    /\ Set([Begin("error", p) EXCEPT
              !.ports[p].opened = IF @ = "pending" THEN "rejected" ELSE @,
              !.last.before = promise[p]])

\* The host (or a hook holding the connector) calls send(data).
Send(data) ==
    Set(send(Begin("send", serialPort), data))

WriteDone(i) ==
    /\ writes[i].stage = "write"
    /\ Set(writeCallback(Begin("writeCallback", 0), i))

DrainDone(i) ==
    /\ writes[i].stage = "drain"
    /\ Set(drainCallback(Begin("drainCallback", 0), i))

Clear ==
    Set(clear(Begin("clear", serialPort)))

Close ==
    Set(close(Begin("close", serialPort)))

CloseDone(p) ==
    /\ ports[p].status = "closing"
    /\ Set(closeCallback(Begin("closeCallback", p), p))

\* The host calls initialize() once the transport has opened.
Initialize ==
    /\ serialPort # 0
    /\ ports[serialPort].status = "open"
    /\ promise[serialPort] = "none"
    /\ \E handshake \in BOOLEAN :
          Set(initialize(Begin("initialize", serialPort), handshake))

\* What the module's hooks may answer for a frame on port p; a hook that no
\* attached listener calls has one (unused) answer.
HandshakeResults(p) ==
    IF "handshake" \in ports[p].data THEN Results ELSE {"undefined"}

Validations(p) == IF "steady" \in ports[p].data THEN BOOLEAN ELSE {TRUE}

Replies(p) ==
    IF "steady" \in ports[p].data /\ options.control = "master"
    THEN {"empty", "requestLocalData"} ELSE {"empty"}

Resets(p) ==
    IF "handshake" \in ports[p].data /\ options.control # "master"
    THEN {"absent", "empty", "resetProperty"} ELSE {"absent"}

\* One frame on port p, with what the module's hooks answer for it.
Deliver(p, result, valid, reply, reset) ==
    Set(portData([Begin("data", p) EXCEPT !.last.before = promise[p]],
                 p, result, valid, reply, reset))

\* The peer's bytes arrive on an open port.
Frame(p) ==
    /\ ports[p].status = "open"
    /\ \E result \in HandshakeResults(p), valid \in Validations(p),
          reply \in Replies(p), reset \in Resets(p) :
          Deliver(p, result, valid, reply, reset)

SlaveTick(t) ==
    /\ t \in armedSlave
    /\ Set(slaveTick(Begin("slaveTick", t)))

FlashTimeout(t) ==
    /\ t \in armedFlash
    /\ Set(flashTimeout([Begin("flashTimeout", t) EXCEPT !.armedFlash = @ \ {t}], t))

\* The host calls connect() after initialize() resolved.
Connect ==
    /\ router
    /\ serialPort # 0
    /\ promise[serialPort] = "resolved"
    /\ "disconnect" \notin ports[serialPort].other
    /\ \E lostController \in BOOLEAN, advertise \in BOOLEAN :
          Set(connect(Begin("connect", serialPort), lostController, advertise))

\* connect() without a router or without a transport throws.
ConnectThrow ==
    /\ IF router THEN serialPort = 0 ELSE TRUE
    /\ Set(Begin("connectThrow", serialPort))

LostTick ==
    /\ connectionLostTimer
    /\ Set(lostTick(Begin("lostTick", serialPort)))

PollTick ==
    /\ requestLocalDataInterval
    /\ \E local \in {"empty", "requestLocalData"},
          property \in {"empty", "getProperty"} :
          Set(pollTick(Begin("pollTick", serialPort), local, property))

AdvertiseTick ==
    /\ advertiseInterval
    /\ Set(call(Begin("advertiseTick", serialPort), "sendEncodedDataToServer"))

\* The transport signals a disconnect; it may or may not still report itself
\* open when the listener runs.
Disconnect(p) ==
    /\ ports[p].status = "open"
    /\ "disconnect" \in ports[p].other
    /\ \E stillOpen \in BOOLEAN :
          LET s == Begin("disconnect", p)
              a == IF stillOpen THEN s ELSE [s EXCEPT !.ports[p].status = "closed"]
          IN  Set(disconnectListener(a))

\* The scanner's side: open and initialize, the transport's callbacks, the
\* handshake, send and teardown, with at most n transports created.
Scanner(n) ==
    \/ Open(n)
    \/ \E p \in Ports : OpenDone(p)
    \/ \E p \in Ports : OpenFail(p)
    \/ \E p \in Ports : PortError(p)
    \/ Initialize
    \/ \E p \in Ports : Frame(p)
    \/ \E t \in Ports : SlaveTick(t)
    \/ \E t \in Ports : FlashTimeout(t)
    \/ \E data \in {"host", "empty"} : Send(data)
    \/ \E i \in 1..Len(writes) : WriteDone(i)
    \/ \E i \in 1..Len(writes) : DrainDone(i)
    \/ Clear
    \/ Close
    \/ \E p \in Ports : CloseDone(p)

\* The router's side: setRouter and connect, the steady-state timers and the
\* disconnect signal.
Router ==
    \/ SetRouter
    \/ Connect
    \/ ConnectThrow
    \/ LostTick
    \/ PollTick
    \/ AdvertiseTick
    \/ \E p \in Ports : Disconnect(p)

\* One connection: a transport is opened, initialized, connected, torn down.
Next == Scanner(MaxPorts) \/ Router

Spec == Init /\ [][Next]_vars

\* The scanner retries: after close() it opens a new transport on the same
\* Connector while callbacks of the old one may still be pending.
NextRetry == Scanner(MaxRetryPorts)

SpecRetry == Init /\ [][NextRetry]_vars

\* The transport delivers every write callback and every drain callback it
\* owes.
Fairness ==
    /\ WF_vars(\E i \in 1..Len(writes) : WriteDone(i))
    /\ WF_vars(\E i \in 1..Len(writes) : DrainDone(i))

SpecFair == Init /\ [][Next]_vars /\ Fairness

\* A retry followed by a connection: the scanner opens, initializes, closes
\* and opens again, the router connects, frames arrive and the transport
\* signals a disconnect; no send and no timer tick.
NextReconnect ==
    \/ Open(MaxRetryPorts)
    \/ \E p \in Ports : OpenDone(p)
    \/ Initialize
    \/ Close
    \/ \E p \in Ports : CloseDone(p)
    \/ SetRouter
    \/ Connect
    \/ \E p \in Ports : Frame(p)
    \/ \E p \in Ports : Disconnect(p)

SpecReconnect == Init /\ [][NextReconnect]_vars

----------------------------------------------------------------------------
\* The Connector's own fields and its environment, without the two observers
\* of steps (last) and of loss windows (window).
progVars == <<options, router, serialPort, connected, received, isSending,
              executeFlash, flashFirmware, slaveTimer, connectionLostTimer,
              requestLocalDataInterval, advertiseInterval, ports, promise,
              settledBy, armedFlash, armedSlave, writes>>

master == options.control = "master"

\* C1: at most one write+drain is in flight at any time, whoever calls send()
\* and however the write and drain callbacks interleave.
C1_OneWriteInFlight == Len(writes) <= 1

\* C1 witness: a send() issued while a write was in flight started no write.
C1_Witness ==
    /\ Len(writes) = 1
    /\ last.sends >= 1
    /\ last.wrote = 0
    /\ isOpen(St)

\* C2: with the transport open and a non-empty payload, send() called while
\* an earlier write has not drained starts no write and changes nothing; with
\* no write left undrained it starts a write.
C2_SecondSendDropped ==
    [][/\ (Send("host") /\ isOpen(St) /\ Len(writes) > 0)
            => (UNCHANGED progVars /\ last'.wrote = 0)
       /\ (Send("host") /\ isOpen(St) /\ Len(writes) = 0)
            => (Len(writes') = 1 /\ isSending' /\ last'.wrote = 1)]_vars

\* C2 witness: the host's send() was dropped behind a write waiting for its
\* drain.
C2_Witness ==
    /\ last.op = "send"
    /\ last.wrote = 0
    /\ isOpen(St)
    /\ Len(writes) = 1
    /\ writes[1].stage = "drain"

\* C3: after clear() or close() no timer of the TimerSet is armed and no
\* handle is left.
C3_NoTimerAfterTeardown ==
    last.op \in {"clear", "close"} =>
        /\ armedFlash = {}
        /\ armedSlave = {}
        /\ flashFirmware = 0
        /\ slaveTimer = 0
        /\ ~connectionLostTimer
        /\ ~requestLocalDataInterval
        /\ ~advertiseInterval

\* C4: the handshake-poll timer runs only while the future of its
\* initialize() call is pending; no poll tick sends after it settled.
C4_PollStopsAtSettle ==
    /\ \A p \in Ports : p \in armedSlave => promise[p] = "pending"
    /\ last.op = "slaveTick" => promise[last.port] = "pending"

\* C5: the firmware deadline takes effect (sets executeFlash, detaches data
\* listeners) only when it is what settles the future.
C5_DeadlineOnlyIfUnsettled ==
    [][(\E t \in Ports : FlashTimeout(t) /\ promise[t] # "pending")
          => (executeFlash' = executeFlash /\ ports' = ports)]_vars

\* C6: with firmwarecheck set, a deadline that fires on a pending handshake
\* sets executeFlash, leaves no handshake data listener and resolves.
C6_DeadlineRequestsFlash ==
    (last.op = "flashTimeout" /\ last.before = "pending") =>
        /\ executeFlash
        /\ promise[last.port] = "resolved"
        /\ "handshake" \notin ports[last.port].data

\* C7 as claimed: every master-handshake frame with an undefined result
\* writes exactly one requestInitialData payload.
C7_OneWritePerFrame ==
    (last.op = "data" /\ master /\ last.result = "undefined") => last.wrote = 1

\* C7 as amended: every such frame calls send() exactly once, and the call
\* writes exactly when the transport is open and no write is left undrained.
C7_OneSendPerFrame ==
    [][(last'.op = "data" /\ master /\ last'.result = "undefined")
          => /\ last'.sends = 1
             /\ last'.wrote = IF isOpen(St) /\ Len(writes) = 0 THEN 1 ELSE 0]_vars

\* C7 witness: a master-handshake frame whose request was dropped.
C7_Witness ==
    /\ last.op = "data"
    /\ master
    /\ last.result = "undefined"
    /\ last.sends = 1
    /\ last.wrote = 0

\* C8: a master-handshake frame with the result true resolves the pending
\* future, cancels the firmware deadline and detaches the handshake listener;
\* no later frame reaches checkInitialData.
C8_MasterTrueResolvesOnce ==
    /\ (last.op = "data" /\ master /\ last.result = "true") =>
          /\ last.settle = "resolve"
          /\ last.checks = 1
          /\ promise[last.port] = "resolved"
          /\ last.port \notin armedFlash
          /\ "handshake" \notin ports[last.port].data
    /\ \A p \in Ports :
          (master /\ settledBy[p] = "data" /\ promise[p] = "resolved") =>
              "handshake" \notin ports[p].data
    /\ (last.op = "data" /\ master /\ last.before = "resolved"
                         /\ settledBy[last.port] = "data") => last.checks = 0

\* C8 witness: a frame arrived after the master handshake had resolved on true.
C8_Witness ==
    /\ last.op = "data"
    /\ master
    /\ last.before = "resolved"
    /\ settledBy[last.port] = "data"

\* C9: a frame of a master handshake with a defined result other than true
\* rejects the future of initialize() without calling setSerialPort, and no
\* handshake send follows the rejection.
C9_MasterFalseRejects ==
    /\ (last.op = "data" /\ master /\ last.result = "false") =>
          /\ last.settle = "reject"
          /\ promise[last.port] = "rejected"
          /\ "setSerialPort" \notin last.calls
          /\ last.sends = 0
    /\ \A p \in Ports :
          (master /\ promise[p] = "rejected") =>
              ("handshake" \notin ports[p].data /\ p \notin armedSlave)
    /\ (last.op = "data" /\ master /\ last.before = "rejected") =>
          (last.checks = 0 /\ last.sends = 0)

\* C10: with the built-in monitor armed, the tick that ends the first silent
\* window after Connected emits `lost` once and leaves the state Lost, the
\* tick that ends the second emits nothing, and a tick outside Connected
\* emits nothing and leaves the state not connected.
C10_LostOnceAtFirstSilentWindow ==
    /\ window.silent >= 1 => (window.lost = 1 /\ ~connected)
    /\ (last.op = "lostTick" /\ window.silent = 1) => last.events = <<"lost">>
    /\ (last.op = "lostTick" /\ window.silent = 2) => last.events = <<>>
    /\ (last.op = "lostTick" /\ last.before = "idle") =>
          (last.events = <<>> /\ ~connected)

\* C10 witness: the tick ending the second silent window has passed.
C10_Witness ==
    /\ last.op = "lostTick"
    /\ window.silent = 2
    /\ window.lost = 1

\* C11: when connect() attaches the steady-state listener no handshake
\* listener is attached to the transport, and every frame is handled at most
\* once in total by the handshake listener and the steady-state listener.
C11_FrameHandledOnce ==
    /\ last.op = "connect" => "handshake" \notin ports[last.port].data
    /\ last.op = "data" => last.checks + last.steady <= 1

\* C12: an 'error' event of the transport while the handshake is pending
\* rejects the future of initialize().
C12_ErrorRejectsHandshake ==
    (last.op = "error" /\ last.before = "pending") =>
        promise[last.port] = "rejected"

\* C13: connect() called without a router or without an open transport
\* throws and changes nothing: no flag, timer or listener, no hook, no event.
C13_ConnectFailsFast ==
    [][(last'.op \in {"connect", "connectThrow"} /\ (~router \/ ~isOpen(St)))
          => /\ last'.op = "connectThrow"
             /\ UNCHANGED progVars
             /\ last'.events = <<>>
             /\ last'.calls = {}]_vars

\* The state s with the observer of steps reset for a call of op.
Calling(s, op) == [s EXCEPT !.last = Step(op, s.serialPort)]

\* Two states with the same program state, whatever the step observer says.
SameState(s, t) == [s EXCEPT !.last = t.last] = t

\* A second call that led from state a to state b emitted nothing, closed no
\* transport and left the state as it was.
Repeats(a, b) ==
    /\ SameState(a, b)
    /\ b.last.events = <<>>
    /\ "serialPort.close" \notin b.last.calls

\* C14: from every state, a second clear() or close() right after the first
\* emits no event, does not close the transport again and changes nothing,
\* whether or not the close callback of the first has run in between.
C14_TeardownIdempotent ==
    LET cleared == clear(Calling(St, "clear"))
        closed == close(Calling(St, "close"))
        done == closeCallback(closed, serialPort)
    IN  /\ Repeats(cleared, clear(Calling(cleared, "clear")))
        /\ Repeats(closed, close(Calling(closed, "close")))
        /\ isOpen(St) => Repeats(done, close(Calling(done, "close")))

\* C14 witness: close() was called again after the close callback of an
\* earlier close() had discarded the transport.
C14_Witness ==
    /\ last.op = "close"
    /\ last.calls = {}
    /\ serialPort = 0
    /\ \E p \in Ports : ports[p].status = "closed" /\ ports[p].opened = "resolved"

\* No steady-state source of events is left: not connected, no steady-state
\* timer armed, no steady-state data listener on any transport.
Silent ==
    /\ ~connected
    /\ ~connectionLostTimer
    /\ ~requestLocalDataInterval
    /\ ~advertiseInterval
    /\ \A p \in Ports : "steady" \notin ports[p].data

\* C15: a disconnect signal after connect() emits `disconnected` exactly
\* once, with the teardown already done at the emission (not connected, no
\* steady-state timer, no listener, transport closing or closed); from then
\* on, until connect() is called again, no `connected` or `lost` is emitted
\* and nothing is forwarded to the router.
C15_DisconnectTearsDownFirst ==
    /\ [](last.op = "disconnect" =>
            /\ last.events = <<"disconnected">>
            /\ last.quiet
            /\ tornDown(St, last.port)
            /\ Silent)
    /\ [][(Silent /\ last'.op # "connect") =>
            /\ Silent'
            /\ \A i \in 1..Len(last'.events) :
                   last'.events[i] \notin {"connected", "lost"}
            /\ last'.calls \cap {"handleLocalData", "setHandlerData",
                                 "sendEncodedDataToServer"} = {}]_vars

\* C16 as claimed: after connect() the first accepted frame emits `connected`
\* and no later accepted frame emits it again; rejected frames change nothing
\* and cause no call and no send.
C16_ConnectedOnlyOnce ==
    [][/\ (last'.op = "data" /\ last'.valid = "yes") =>
             /\ connected' /\ received'
             /\ last'.events =
                    IF window.announced = 0 THEN <<"connected">> ELSE <<>>
       /\ (last'.op = "data" /\ last'.valid = "no") =>
             /\ UNCHANGED progVars
             /\ last'.events = <<>> /\ last'.calls = {} /\ last'.sends = 0
      ]_vars

\* C16 as amended: an accepted frame leaves the state Connected and emits
\* `connected` exactly when the state was not Connected before it, which is
\* so for the first accepted frame after connect() and for the first after a
\* `lost`; rejected frames change nothing and cause no call and no send.
C16_ConnectedOnEntry ==
    [][/\ (last'.op = "data" /\ last'.valid = "yes") =>
             /\ connected' /\ received'
             /\ last'.events = IF connected THEN <<>> ELSE <<"connected">>
             /\ window.announced = 0 => ~connected
       /\ (last'.op = "data" /\ last'.valid = "no") =>
             /\ UNCHANGED progVars
             /\ last'.events = <<>> /\ last'.calls = {} /\ last'.sends = 0
      ]_vars

\* C16 witness: an accepted frame emitted the second `connected` since
\* connect().
C16_Witness ==
    /\ last.op = "data"
    /\ last.valid = "yes"
    /\ last.events = <<"connected">>
    /\ window.announced = 2

\* C17: a poll tick that starts with the transport open and no send in
\* flight writes every non-empty payload it has: both when requestLocalData()
\* and getProperty() both return one, that one when only one does.
C17_PollWritesBoth ==
    [][(last'.op = "pollTick" /\ isOpen(St) /\ ~isSending)
          => last'.wrote = last'.sends]_vars

\* C18: a slave-handshake frame with the result true, on a module whose
\* resetProperty() returns a payload, writes that payload exactly once,
\* whether or not a poll request is still in flight.
C18_ResetPropertyWritten ==
    [][\A p \in Ports :
          (/\ ~master
           /\ ports[p].status = "open"
           /\ "handshake" \in ports[p].data
           /\ \E valid \in Validations(p), reply \in Replies(p) :
                  Deliver(p, "true", valid, reply, "resetProperty"))
          => (last'.wrote = 1 /\ promise'[p] = "resolved")]_vars

\* C19: with the write and drain callbacks delivered fairly, a set in-flight
\* flag is always cleared again.
C19_FlagEventuallyCleared == isSending ~> ~isSending

\* C20: the close callback of a transport that is no longer the referenced
\* one leaves the reference to the newly opened transport in place.
C20_StaleCloseKeepsReference ==
    [][\A p \in Ports :
          (CloseDone(p) /\ serialPort # p) => serialPort' = serialPort]_vars

====
